---- MODULE Spec2Model ----
(***************************************************************************)
(* Session tickets of the ScrambleSuit transport                           *)
(* (pupy/network/lib/transports/scramblesuit/ticket.py).                   *)
(*                                                                         *)
(* Byte strings are sequences of chunks.  A chunk is a record with a       *)
(* `kind', a length `len' in bytes and the data that determine its         *)
(* content; the cryptographic primitives are ideal (symbolic): a           *)
(* ciphertext names the key, the IV and the plaintext it was made from, a  *)
(* MAC names its key and the data it covers, and get_random never repeats  *)
(* a value.  Python's None is the empty sequence.                          *)
(***************************************************************************)
EXTENDS Integers, Sequences, FiniteSets

VARIABLES now, rnd, srvState, writes, gen, objs, wire, pc, loc, res

vars == <<now, rnd, srvState, writes, gen, objs, wire, pc, loc, res>>

-----------------------------------------------------------------------------
(* Bounds of the model.                                                    *)

\* The clock runs from StartTime to MaxTime (seconds, scaled).
MaxTime == 5
\* The clock's last value when handlers run concurrently.
ConcMaxTime == 3
\* At most MaxObjs SessionTicket objects are constructed.
MaxObjs == 1
\* At most MaxWire tickets are handed out.
MaxWire == 2
\* The clock's last value where one operation is looked at on its own.
ShortMaxTime == 3
\* At most MaxFrames calls of createTicketMessage draw padding.
MaxFrames == 2

StartTime == 1
Handlers == {"h1", "h2"}

-----------------------------------------------------------------------------
(* Constants of const.py, as ticket.py uses them.  The lengths of the     *)
(* ticket and of its fields are those of the module's docstring (lines     *)
(* 9-17) and of the pad of line 184.  The two durations are long (days);   *)
(* here they are scaled to clock ticks, the lifetime of a ticket being the *)
(* rotation time.                                                          *)

KEY_ROTATION_TIME == 1
SESSION_TICKET_LIFETIME == 1
TICKET_LENGTH == 112
MASTER_KEY_LENGTH == 32
TICKET_AES_KEY_LENGTH == 16
TICKET_HMAC_KEY_LENGTH == 32
TICKET_AES_CBC_IV_LENGTH == 16
AES_BLOCK_SIZE == 16
IDENTIFIER_LENGTH == 18
PAD_LENGTH == 10
SHA256_LENGTH == 32
\* The padding of a ticket message is at most MAX_PADDING_LENGTH minus the
\* length of the ticket (scaled: two bytes).
MAX_PADDING_LENGTH == 114
\* HMAC_SHA256_128: an HMAC-SHA256 cut to 128 bits.
HMAC_SHA256_128_LENGTH == 16
EPOCH_LENGTH == 4

None == << >>

-----------------------------------------------------------------------------
(* Byte strings.                                                           *)

RECURSIVE ByteLen(_)
ByteLen(s) == IF s = << >> THEN 0 ELSE Head(s).len + ByteLen(Tail(s))

\* The offset at which chunk i of s starts.
ChunkStart(s, i) == ByteLen(SubSeq(s, 1, i - 1))

Junk(n) == <<[kind |-> "junk", len |-> n, id |-> 0]>>

\* s[a:b] for 0 <= a <= b <= len(s): the chunks between the two offsets
\* when both fall on chunk boundaries, and otherwise bytes of which the
\* model knows the number only.
Slice(s, a, b) ==
  LET from == {i \in 1..Len(s) : ChunkStart(s, i) = a}
      upto == {i \in 1..Len(s) : ChunkStart(s, i) + s[i].len = b}
  IN  IF a = b THEN << >>
      ELSE IF from # {} /\ upto # {}
           THEN SubSeq(s, CHOOSE i \in from : TRUE, CHOOSE i \in upto : TRUE)
           ELSE Junk(b - a)

\* get_random(n): n bytes never drawn before.  A draw is named by the place
\* that drew it and the number of draws made there before it.
get_random(n, site, id) ==
  <<[kind |-> "rand", len |-> n, site |-> site, id |-> id]>>

\* The draw counters after one more draw at site.
Drawn(r, site) == [r EXCEPT ![site] = @ + 1]

\* struct.pack('I', x): four bytes, native order.  Python raises
\* struct.error for x outside 0 .. 2^32 - 1; the clock stays inside.
pack_I(x) == <<[kind |-> "u32", len |-> 4, val |-> x]>>

\* struct.unpack('I', b)[0]; bytes that no pack produced decode to some
\* number the model does not know (-1).
unpack_I(b) ==
  IF Len(b) = 1 /\ b[1].kind = "u32" THEN b[1].val ELSE -1

TICKET_IDENTIFIER ==
  <<[kind |-> "const", len |-> IDENTIFIER_LENGTH, name |-> "TICKET_IDENTIFIER"]>>

-----------------------------------------------------------------------------
(* cryptoutils and util (ideal primitives).                                *)

hmac_sha256_digest(key, data) ==
  <<[kind |-> "mac", len |-> SHA256_LENGTH, key |-> key, data |-> data]>>

\* util.isValidHMAC(hmac1, hmac2, key): compares the two under a second
\* HMAC with key, in constant time.
isValidHMAC(hmac1, hmac2, key) ==
  hmac_sha256_digest(key, hmac1) = hmac_sha256_digest(key, hmac2)

\* mycrypto.HMAC_SHA256_128(key, msg): the short MAC of the mark and of the
\* trailer of a ticket message.
HMAC_SHA256_128(key, msg) ==
  <<[kind |-> "mac128", len |-> HMAC_SHA256_128_LENGTH, key |-> key, data |-> msg]>>

\* util.getEpoch(): the caller's epoch marker, opaque bytes.
getEpoch == <<[kind |-> "epoch", len |-> EPOCH_LENGTH]>>

\* NewAESCipher(key, iv).encrypt(pt): AES-CBC, len(pt) a multiple of the
\* block size.
AesEncrypt(key, iv, pt) ==
  <<[kind |-> "enc", len |-> ByteLen(pt), key |-> key, iv |-> iv, pt |-> pt]>>

\* What CBC decryption under the right key and a wrong IV returns: the
\* first block is garbled, the later blocks are intact.
GarbleFirstBlock(pt) ==
  [i \in 1..Len(pt) |->
     IF ChunkStart(pt, i) < AES_BLOCK_SIZE
     THEN [kind |-> "junk", len |-> pt[i].len, id |-> 0]
     ELSE pt[i]]

\* NewAESCipher(key, iv).decrypt(ct).
AesDecrypt(key, iv, ct) ==
  IF Len(ct) = 1 /\ ct[1].kind = "enc"
  THEN IF ct[1].key = key
       THEN IF ct[1].iv = iv THEN ct[1].pt ELSE GarbleFirstBlock(ct[1].pt)
       ELSE Junk(ByteLen(ct))
  ELSE Junk(ByteLen(ct))

-----------------------------------------------------------------------------
(* ProtocolState.                                                          *)

\* The default of ProtocolState.__init__'s issueDate argument: int(time.time())
\* evaluated once, when the module is loaded.
DefaultIssueDate == StartTime

\* ProtocolState.__init__: the four fields.
ProtocolState(masterKey, issueDate) ==
  [kind |-> "ProtocolState",
   identifier |-> TICKET_IDENTIFIER,
   masterKey |-> masterKey,
   issueDate |-> issueDate,
   pad |-> <<[kind |-> "zero", len |-> PAD_LENGTH]>>]

\* __repr__ writing the default issue date, not the object's.
Repr_default(state) ==
  pack_I(DefaultIssueDate) \o state.identifier \o state.masterKey \o state.pad

\* ProtocolState.__repr__.
Repr(state) ==
  pack_I(state.issueDate) \o state.identifier \o state.masterKey \o state.pad

\* isValid with >= for >.
isValid_ge(state, t) ==
  LET lifetime == t - state.issueDate
  IN  IF lifetime >= SESSION_TICKET_LIFETIME THEN FALSE ELSE TRUE

\* ProtocolState.isValid at time t.
isValid(state, t) ==
  LET lifetime == t - state.issueDate
  IN  IF lifetime > SESSION_TICKET_LIFETIME THEN FALSE ELSE TRUE

-----------------------------------------------------------------------------
(* The server's key material and the handlers that use it.                 *)

\* Line 92 with >= for >.
NeedsRotation_ge(s, t) == (t - s.keyCreation) >= KEY_ROTATION_TIME

\* checkKeys, line 92: is the key material older than the rotation time?
NeedsRotation(s, t) == (t - s.keyCreation) > KEY_ROTATION_TIME

\* The HMAC test left out.
TicketHmacValid_any(ticket, hmacKey) == TRUE

\* The HMAC test looking at the key only, not at the bytes covered.
TicketHmacValid_keyOnly(ticket, hmacKey) ==
  LET m == Slice(ticket, 80, TICKET_LENGTH)
  IN  Len(m) = 1 /\ m[1].kind = "mac" /\ m[1].key = hmacKey

\* decrypt, lines 127-129 and 136-138: does the ticket's HMAC field
\* authenticate its first 80 bytes under hmacKey?
TicketHmacValid(ticket, hmacKey) ==
  isValidHMAC(hmac_sha256_digest(hmacKey, Slice(ticket, 0, 80)),
              Slice(ticket, 80, TICKET_LENGTH), hmacKey)

\* decrypt, lines 144-158: decrypt the authenticated ticket with aesKey and
\* parse the state.
OpenTicket(ticket, aesKey) ==
  LET plainTicket == AesDecrypt(aesKey,
                                Slice(ticket, 0, TICKET_AES_CBC_IV_LENGTH),
                                Slice(ticket, TICKET_AES_CBC_IV_LENGTH, 80))
      issueDate   == unpack_I(Slice(plainTicket, 0, 4))
      identifier  == Slice(plainTicket, 4, 22)
      masterKey   == Slice(plainTicket, 22, 54)
  IN  IF ~(identifier = TICKET_IDENTIFIER)
      THEN [kind |-> "None"]
      ELSE ProtocolState(masterKey, issueDate)

\* issue() with the HMAC over the ciphertext only, the IV left out.
FinalTicket_macCtOnly(o) ==
  LET cryptedState == AesEncrypt(o.symmTicketKey, o.IV, Repr(o.state))
      hmac == hmac_sha256_digest(o.hmacTicketKey, cryptedState)
  IN  o.IV \o cryptedState \o hmac

\* SessionTicket.issue, lines 266-274, for the object o.
FinalTicket(o) ==
  LET cryptedState == AesEncrypt(o.symmTicketKey, o.IV, Repr(o.state))
      hmac == hmac_sha256_digest(o.hmacTicketKey, o.IV \o cryptedState)
  IN  o.IV \o cryptedState \o hmac

\* What a handler holds while it is idle.
Loc0 ==
  [op |-> "none", ckret |-> "idle", ticked |-> FALSE, ticket |-> None,
   vkey |-> None, aesKey |-> None, aesUsed |-> FALSE,
   pre |-> None, masterKey |-> None, IV |-> None, symmTicketKey |-> None,
   chain |-> FALSE, obj |-> 0, wfail |-> FALSE, HMACKey |-> None]

NoRes == [kind |-> "none"]

Init ==
  /\ now = StartTime
  /\ rnd = [aes |-> 1, hmac |-> 1, iv |-> 0, mk |-> 0, pad |-> 0]
  /\ srvState = [aesKey |-> get_random(TICKET_AES_KEY_LENGTH, "aes", 0),
                 hmacKey |-> get_random(TICKET_HMAC_KEY_LENGTH, "hmac", 0),
                 oldAesKey |-> None,
                 oldHmacKey |-> None,
                 keyCreation |-> StartTime]
  /\ writes = 0
  /\ gen = 0
  /\ objs = << >>
  /\ wire = {}
  /\ pc = [h \in Handlers |-> "idle"]
  /\ loc = [h \in Handlers |-> Loc0]
  /\ res = [h \in Handlers |-> NoRes]

\* The places at which a handler is between calls or about to read the
\* clock again within a call (line 102, line 263).  The clock is read at
\* lines 92, 102, 197 and 263 only: an advance of the clock anywhere else
\* in a call cannot be told from one just before the call's next reading.
ClockPoints == {"idle", "ret", "ck102", "i263"}

\* time.time() advances.  `fresh' of an object and `ticked' of a call
\* record whether the clock has advanced since the object's construction
\* and since the call.
Tick(maxTime) ==
  /\ now < maxTime
  /\ now' = now + 1
  /\ objs' = [i \in 1..Len(objs) |-> [objs[i] EXCEPT !.fresh = FALSE]]
  /\ loc' = [h \in Handlers |->
               IF pc[h] = "idle" THEN loc[h] ELSE [loc[h] EXCEPT !.ticked = TRUE]]
  /\ UNCHANGED <<rnd, srvState, writes, gen, wire, pc, res>>

\* A failed assert: AssertionError is raised to the caller.
Raise(h) ==
  /\ pc' = [pc EXCEPT ![h] = "ret"]
  /\ res' = [res EXCEPT ![h] = [kind |-> "AssertionError"]]

\* A return with value v.
ReturnValue(h, v) ==
  /\ pc' = [pc EXCEPT ![h] = "ret"]
  /\ res' = [res EXCEPT ![h] = v]

Goto(h, l) ==
  /\ pc' = [pc EXCEPT ![h] = l]
  /\ UNCHANGED res

SetLoc(h, l) == loc' = [loc EXCEPT ![h] = l]

-----------------------------------------------------------------------------
(* checkKeys(srvState), lines 79-105, statement by statement.              *)

\* A direct call of checkKeys.
CallCheckKeys(h) ==
  /\ pc[h] = "idle"
  /\ SetLoc(h, [Loc0 EXCEPT !.op = "checkKeys", !.ckret = "ret"])
  /\ pc' = [pc EXCEPT ![h] = "ck88"]
  /\ res' = [res EXCEPT ![h] = [kind |-> "None"]]
  /\ UNCHANGED <<now, rnd, srvState, writes, gen, objs, wire>>

\* Lines 88-92: the assert and the age test.
CheckKeys_88(h) ==
  /\ pc[h] = "ck88"
  /\ IF ~(srvState.hmacKey # None /\ srvState.aesKey # None)
     THEN Raise(h) /\ UNCHANGED loc
     ELSE IF NeedsRotation(srvState, now)
          THEN Goto(h, "ck96") /\ SetLoc(h, [loc[h] EXCEPT !.pre = <<srvState>>])
          ELSE Goto(h, loc[h].ckret) /\ UNCHANGED loc
  /\ UNCHANGED <<now, rnd, srvState, writes, gen, objs, wire>>

\* Line 96 left out: the AES key is replaced without being archived.
CheckKeys_96_skip(h) ==
  /\ pc[h] = "ck96"
  /\ Goto(h, "ck97")
  /\ UNCHANGED <<now, rnd, srvState, writes, gen, objs, wire, loc>>

\* Line 96.
CheckKeys_96(h) ==
  /\ pc[h] = "ck96"
  /\ srvState' = [srvState EXCEPT !.oldAesKey = srvState.aesKey]
  /\ Goto(h, "ck97")
  /\ UNCHANGED <<now, rnd, writes, gen, objs, wire, loc>>

\* Line 97 left out: the HMAC key is replaced without being archived.
CheckKeys_97_skip(h) ==
  /\ pc[h] = "ck97"
  /\ Goto(h, "ck100")
  /\ UNCHANGED <<now, rnd, srvState, writes, gen, objs, wire, loc>>

\* Line 97.
CheckKeys_97(h) ==
  /\ pc[h] = "ck97"
  /\ srvState' = [srvState EXCEPT !.oldHmacKey = srvState.hmacKey]
  /\ Goto(h, "ck100")
  /\ UNCHANGED <<now, rnd, writes, gen, objs, wire, loc>>

\* Line 100.
CheckKeys_100(h) ==
  /\ pc[h] = "ck100"
  /\ srvState' = [srvState EXCEPT !.aesKey = get_random(TICKET_AES_KEY_LENGTH, "aes", rnd.aes)]
  /\ rnd' = Drawn(rnd, "aes")
  /\ Goto(h, "ck101")
  /\ UNCHANGED <<now, writes, gen, objs, wire, loc>>

\* Line 101.
CheckKeys_101(h) ==
  /\ pc[h] = "ck101"
  /\ srvState' = [srvState EXCEPT !.hmacKey = get_random(TICKET_HMAC_KEY_LENGTH, "hmac", rnd.hmac)]
  /\ rnd' = Drawn(rnd, "hmac")
  /\ Goto(h, "ck102")
  /\ UNCHANGED <<now, writes, gen, objs, wire, loc>>

\* Line 102.  gen counts the rotations.
CheckKeys_102(h) ==
  /\ pc[h] = "ck102"
  /\ srvState' = [srvState EXCEPT !.keyCreation = now]
  /\ gen' = gen + 1
  /\ Goto(h, "ck105")
  /\ UNCHANGED <<now, rnd, writes, objs, wire, loc>>

\* Line 105: srvState.writeState(); writes counts the calls.
CheckKeys_105(h) ==
  /\ pc[h] = "ck105"
  /\ writes' = writes + 1
  /\ Goto(h, loc[h].ckret)
  /\ UNCHANGED <<now, rnd, srvState, gen, objs, wire, loc>>

\* Line 105 when the write to durable storage fails: writeState raises, and
\* nothing between it and the caller of decrypt, SessionTicket or
\* issueTicketAndKey catches the exception.
CheckKeys_105_fail(h) ==
  /\ pc[h] = "ck105"
  /\ writes' = writes + 1
  /\ SetLoc(h, [loc[h] EXCEPT !.wfail = TRUE])
  /\ ReturnValue(h, [kind |-> "WriteStateError"])
  /\ UNCHANGED <<now, rnd, srvState, gen, objs, wire>>

-----------------------------------------------------------------------------
(* What a client, or an attacker on the wire, can hand to decrypt.         *)

\* A key the server never held.
AttackerKey == get_random(TICKET_HMAC_KEY_LENGTH, "attacker", 0)

\* The three fields of a 112-byte ticket t.
FieldIV(t)   == Slice(t, 0, TICKET_AES_CBC_IV_LENGTH)
FieldCT(t)   == Slice(t, TICKET_AES_CBC_IV_LENGTH, 80)
FieldHMAC(t) == Slice(t, 80, TICKET_LENGTH)

\* Tickets that differ from the issued ticket t in one field: the field is
\* overwritten with other bytes, with the same field of another issued
\* ticket, or (the HMAC) with a MAC made under the attacker's own key.
Tampered(t) ==
  {Junk(TICKET_AES_CBC_IV_LENGTH) \o FieldCT(t) \o FieldHMAC(t),
   FieldIV(t) \o Junk(64) \o FieldHMAC(t),
   FieldIV(t) \o FieldCT(t) \o Junk(SHA256_LENGTH),
   FieldIV(t) \o FieldCT(t) \o hmac_sha256_digest(AttackerKey, Slice(t, 0, 80))}
  \cup {FieldIV(u) \o FieldCT(t) \o FieldHMAC(t) : u \in wire \ {t}}
  \cup {FieldIV(t) \o FieldCT(u) \o FieldHMAC(t) : u \in wire \ {t}}
  \cup {FieldIV(t) \o FieldCT(t) \o FieldHMAC(u) : u \in wire \ {t}}

\* Inputs of another length than a ticket's.
WrongLength ==
  {None, Junk(TICKET_LENGTH - 1), Junk(TICKET_LENGTH + 1)}
  \cup {Slice(t, 0, 80) : t \in wire}

\* 112 bytes that are no ticket.
Garbage == Junk(TICKET_AES_CBC_IV_LENGTH) \o Junk(64) \o Junk(SHA256_LENGTH)

DecryptInputs ==
  wire \cup UNION {Tampered(t) \ wire : t \in wire} \cup WrongLength

\* The ticket a test makes from the issued ticket t with the keys t was made
\* with: the identifier of the state is overwritten, and the state is
\* encrypted and authenticated again.
CorruptIdentifier(t) ==
  LET pt == t[2].pt
      state == <<pt[1]>> \o Junk(IDENTIFIER_LENGTH) \o <<pt[3], pt[4]>>
      cryptedState == AesEncrypt(t[2].key, FieldIV(t), state)
  IN  FieldIV(t) \o cryptedState
        \o hmac_sha256_digest(t[3].key, FieldIV(t) \o cryptedState)

ForgedInputs == wire \cup {CorruptIdentifier(t) : t \in wire}

-----------------------------------------------------------------------------
(* decrypt(ticket, srvState), lines 108-158.                               *)

\* The call and the asserts of lines 119-120; line 124 calls checkKeys.
Decrypt_119(h, inputs) ==
  /\ pc[h] = "idle"
  /\ \E ticket \in inputs :
       /\ SetLoc(h, [Loc0 EXCEPT !.op = "decrypt", !.ckret = "d127",
                                 !.ticket = ticket])
       /\ IF ~(ticket # None /\ ByteLen(ticket) = TICKET_LENGTH)
             \/ ~(srvState.hmacKey # None /\ srvState.aesKey # None)
          THEN Raise(h)
          ELSE /\ pc' = [pc EXCEPT ![h] = "ck88"]
               /\ res' = [res EXCEPT ![h] = NoRes]
  /\ UNCHANGED <<now, rnd, srvState, writes, gen, objs, wire>>

\* Lines 127-129: the HMAC under the current key.
Decrypt_127(h) ==
  /\ pc[h] = "d127"
  /\ IF TicketHmacValid(loc[h].ticket, srvState.hmacKey)
     THEN Goto(h, "d130") /\ SetLoc(h, [loc[h] EXCEPT !.vkey = srvState.hmacKey])
     ELSE Goto(h, "d132") /\ UNCHANGED loc
  /\ UNCHANGED <<now, rnd, srvState, writes, gen, objs, wire>>

\* Line 130.
Decrypt_130(h) ==
  /\ pc[h] = "d130"
  /\ SetLoc(h, [loc[h] EXCEPT !.aesKey = srvState.aesKey])
  /\ Goto(h, "d144")
  /\ UNCHANGED <<now, rnd, srvState, writes, gen, objs, wire>>

\* Lines 132-133 with the previous keys never consulted.
Decrypt_132_noGrace(h) ==
  /\ pc[h] = "d132"
  /\ ReturnValue(h, [kind |-> "None"])
  /\ UNCHANGED <<now, rnd, srvState, writes, gen, objs, wire, loc>>

\* Lines 132-133.
Decrypt_132(h) ==
  /\ pc[h] = "d132"
  /\ IF srvState.oldHmacKey = None
     THEN ReturnValue(h, [kind |-> "None"])
     ELSE Goto(h, "d136")
  /\ UNCHANGED <<now, rnd, srvState, writes, gen, objs, wire, loc>>

\* Lines 136-141: the HMAC under the previous key.
Decrypt_136(h) ==
  /\ pc[h] = "d136"
  /\ IF TicketHmacValid(loc[h].ticket, srvState.oldHmacKey)
     THEN Goto(h, "d139") /\ SetLoc(h, [loc[h] EXCEPT !.vkey = srvState.oldHmacKey])
     ELSE ReturnValue(h, [kind |-> "None"]) /\ UNCHANGED loc
  /\ UNCHANGED <<now, rnd, srvState, writes, gen, objs, wire>>

\* Line 139 taking the current AES key.
Decrypt_139_current(h) ==
  /\ pc[h] = "d139"
  /\ SetLoc(h, [loc[h] EXCEPT !.aesKey = srvState.aesKey])
  /\ Goto(h, "d144")
  /\ UNCHANGED <<now, rnd, srvState, writes, gen, objs, wire>>

\* Line 139.
Decrypt_139(h) ==
  /\ pc[h] = "d139"
  /\ SetLoc(h, [loc[h] EXCEPT !.aesKey = srvState.oldAesKey])
  /\ Goto(h, "d144")
  /\ UNCHANGED <<now, rnd, srvState, writes, gen, objs, wire>>

\* Lines 144-158: AES decryption, parsing, the identifier test.
Decrypt_144(h) ==
  /\ pc[h] = "d144"
  /\ SetLoc(h, [loc[h] EXCEPT !.aesUsed = TRUE])
  /\ ReturnValue(h, OpenTicket(loc[h].ticket, loc[h].aesKey))
  /\ UNCHANGED <<now, rnd, srvState, writes, gen, objs, wire>>

-----------------------------------------------------------------------------
(* SessionTicket and issueTicketAndKey, lines 63-76 and 222-277.           *)

\* The master keys a caller passes to SessionTicket directly.
MasterKeys == {get_random(MASTER_KEY_LENGTH, "caller", i) : i \in 1..1}

\* SessionTicket(masterKey, srvState): the call, the assert of lines 239-240;
\* line 242 calls checkKeys.
EnterNew(h, masterKey, l) ==
  /\ SetLoc(h, [l EXCEPT !.ckret = "s245", !.masterKey = masterKey])
  /\ IF ~(masterKey # None /\ ByteLen(masterKey) = MASTER_KEY_LENGTH)
     THEN Raise(h)
     ELSE /\ pc' = [pc EXCEPT ![h] = "ck88"]
          /\ res' = [res EXCEPT ![h] = NoRes]

New_239(h) ==
  /\ pc[h] = "idle"
  /\ Len(objs) < MaxObjs
  /\ \E masterKey \in MasterKeys :
       EnterNew(h, masterKey, [Loc0 EXCEPT !.op = "new"])
  /\ UNCHANGED <<now, rnd, srvState, writes, gen, objs, wire>>

\* issueTicketAndKey, lines 73-74: a fresh master key, then SessionTicket.
IssueTicketAndKey_73(h) ==
  /\ pc[h] = "idle"
  /\ Len(objs) < MaxObjs
  /\ Cardinality(wire) < MaxWire
  /\ EnterNew(h, get_random(MASTER_KEY_LENGTH, "mk", rnd.mk),
              [Loc0 EXCEPT !.op = "issueTicketAndKey", !.chain = TRUE])
  /\ rnd' = Drawn(rnd, "mk")
  /\ UNCHANGED <<now, srvState, writes, gen, objs, wire>>

\* Lines 245-248: the IV and the protocol state.
New_245(h) ==
  /\ pc[h] = "s245"
  /\ SetLoc(h, [loc[h] EXCEPT !.IV = get_random(TICKET_AES_CBC_IV_LENGTH, "iv", rnd.iv)])
  /\ rnd' = Drawn(rnd, "iv")
  /\ Goto(h, "s251")
  /\ UNCHANGED <<now, srvState, writes, gen, objs, wire>>

\* Line 251.
New_251(h) ==
  /\ pc[h] = "s251"
  /\ SetLoc(h, [loc[h] EXCEPT !.symmTicketKey = srvState.aesKey])
  /\ Goto(h, "s252")
  /\ UNCHANGED <<now, rnd, srvState, writes, gen, objs, wire>>

\* The SessionTicket object a handler has built at line 252.  fresh and gen
\* record that it was constructed at the clock's present value, and after
\* how many rotations; chain, that issueTicketAndKey built it (line 74) and
\* hands no reference to it to its caller.
NewObject(h) ==
  [IV |-> loc[h].IV,
   state |-> ProtocolState(loc[h].masterKey, DefaultIssueDate),
   symmTicketKey |-> loc[h].symmTicketKey,
   hmacTicketKey |-> srvState.hmacKey,
   fresh |-> ~loc[h].ticked,
   gen |-> gen,
   chain |-> loc[h].chain]

\* Line 252; the constructor returns, and issueTicketAndKey goes on to
\* issue() (line 74).
New_252(h) ==
  /\ pc[h] = "s252"
  /\ objs' = Append(objs, NewObject(h))
  /\ SetLoc(h, [loc[h] EXCEPT !.obj = Len(objs) + 1])
  /\ IF loc[h].chain
     THEN Goto(h, "i263")
     ELSE ReturnValue(h, [kind |-> "SessionTicket", obj |-> Len(objs) + 1])
  /\ UNCHANGED <<now, rnd, srvState, writes, gen, wire>>

\* A call of issue() on an object that SessionTicket(masterKey, srvState)
\* returned earlier.
CallIssue(h) ==
  /\ pc[h] = "idle"
  /\ \E i \in {j \in 1..Len(objs) : ~objs[j].chain} :
       SetLoc(h, [Loc0 EXCEPT !.op = "issue", !.obj = i])
  /\ pc' = [pc EXCEPT ![h] = "i263"]
  /\ res' = [res EXCEPT ![h] = NoRes]
  /\ UNCHANGED <<now, rnd, srvState, writes, gen, objs, wire>>

\* issue() without line 263: the issue date is left as constructed.
Stamped_stale(o, t) == o

\* The object after line 263 of issue().
Stamped(o, t) == [o EXCEPT !.state.issueDate = t]

\* issue(), lines 263-277; issueTicketAndKey returns masterKey + newTicket.
Issue_263(h) ==
  LET o == Stamped(objs[loc[h].obj], now)
      finalTicket == FinalTicket(o)
  IN  /\ pc[h] = "i263"
      /\ finalTicket \in wire \/ Cardinality(wire) < MaxWire
      /\ objs' = [objs EXCEPT ![loc[h].obj] = o]
      /\ IF ~(ByteLen(Repr(o.state)) % AES_BLOCK_SIZE = 0)
         THEN Raise(h) /\ UNCHANGED wire
         ELSE /\ wire' = wire \cup {finalTicket}
              /\ ReturnValue(h, [kind |-> "ticket",
                                 bytes |-> IF loc[h].chain
                                           THEN o.state.masterKey \o finalTicket
                                           ELSE finalTicket])
      /\ UNCHANGED <<now, rnd, srvState, writes, gen, loc>>

-----------------------------------------------------------------------------
(* createTicketMessage(rawTicket, HMACKey), lines 38-60.                   *)

\* The keys a caller hands to createTicketMessage: one of the length of an
\* HMAC key and one too short.
FramingKeys ==
  {get_random(TICKET_HMAC_KEY_LENGTH, "frame", 0),
   get_random(TICKET_AES_KEY_LENGTH, "frame", 1)}

\* The padding lengths with the ticket's length not subtracted.
PaddingLengths_wide == 0..MAX_PADDING_LENGTH

\* Lines 53-54: random.randint(a, b) returns an N with a <= N <= b.
PaddingLengths == 0..(MAX_PADDING_LENGTH - TICKET_LENGTH)

\* get_random(n) of line 52; no bytes for n = 0.
Padding(n, id) == IF n = 0 THEN << >> ELSE get_random(n, "pad", id)

\* The message without its mark.
createTicketMessage_noMark(rawTicket, HMACKey, n, id) ==
  LET padding == Padding(n, id)
      hmac == HMAC_SHA256_128(HMACKey, rawTicket \o padding \o getEpoch)
  IN  rawTicket \o padding \o hmac

\* Lines 52-60, with n the padding length drawn and id the draw.
createTicketMessage(rawTicket, HMACKey, n, id) ==
  LET padding == Padding(n, id)
      mark == HMAC_SHA256_128(HMACKey, rawTicket)
      hmac == HMAC_SHA256_128(HMACKey, rawTicket \o padding \o mark \o getEpoch)
  IN  rawTicket \o padding \o mark \o hmac

\* The call, the asserts of lines 47-48 and the body.
CreateTicketMessage_47(h) ==
  /\ pc[h] = "idle"
  /\ \E rawTicket \in wire \cup {Junk(TICKET_LENGTH - 1)} :
     \E HMACKey \in FramingKeys :
       /\ SetLoc(h, [Loc0 EXCEPT !.op = "createTicketMessage",
                                 !.ticket = rawTicket, !.HMACKey = HMACKey])
       /\ IF ~(ByteLen(rawTicket) = TICKET_LENGTH)
             \/ ~(ByteLen(HMACKey) = TICKET_HMAC_KEY_LENGTH)
          THEN Raise(h) /\ UNCHANGED rnd
          ELSE /\ rnd.pad < MaxFrames
               /\ \E n \in PaddingLengths :
                    ReturnValue(h, [kind |-> "message",
                                    bytes |-> createTicketMessage(rawTicket, HMACKey,
                                                                  n, rnd.pad)])
               /\ rnd' = Drawn(rnd, "pad")
  /\ UNCHANGED <<now, srvState, writes, gen, objs, wire>>

-----------------------------------------------------------------------------
(* The caller of decrypt checks the expiry of the state it got.            *)

\* ProtocolState.isValid(), lines 195-207, on the state decrypt returned.
\* The result records the time of the call.
IsValid_195(h) ==
  /\ pc[h] = "ret"
  /\ res[h].kind = "ProtocolState"
  /\ IF ~(res[h].issueDate # 0)
     THEN Raise(h)
     ELSE ReturnValue(h, [kind |-> "isValid", value |-> isValid(res[h], now),
                          state |-> res[h], at |-> now])
  /\ SetLoc(h, [loc[h] EXCEPT !.op = "isValid"])
  /\ UNCHANGED <<now, rnd, srvState, writes, gen, objs, wire>>

\* repr(state), lines 218-219, on a ProtocolState the caller holds: the one
\* decrypt returned, or the state attribute of the SessionTicket it
\* constructed.
Repr_218(h) ==
  /\ pc[h] = "ret"
  /\ res[h].kind \in {"ProtocolState", "SessionTicket"}
  /\ LET state == IF res[h].kind = "ProtocolState"
                  THEN res[h] ELSE objs[res[h].obj].state
     IN  ReturnValue(h, [kind |-> "repr", bytes |-> Repr(state), state |-> state])
  /\ SetLoc(h, [loc[h] EXCEPT !.op = "repr"])
  /\ UNCHANGED <<now, rnd, srvState, writes, gen, objs, wire>>

\* The caller is done with the result.
Return(h) ==
  /\ pc[h] = "ret"
  /\ pc' = [pc EXCEPT ![h] = "idle"]
  /\ SetLoc(h, Loc0)
  /\ res' = [res EXCEPT ![h] = NoRes]
  /\ UNCHANGED <<now, rnd, srvState, writes, gen, objs, wire>>

-----------------------------------------------------------------------------
(* Specifications.                                                         *)

\* One call at a time, by one handler; decrypt is handed issued tickets,
\* tampered tickets and inputs of a wrong length.
SeqTick ==
  /\ \A g \in Handlers : pc[g] \in ClockPoints
  /\ Tick(MaxTime)

SeqNext ==
  \/ SeqTick
  \/ \E h \in {"h1"} :
       \/ CallCheckKeys(h)
       \/ CheckKeys_88(h)
       \/ CheckKeys_96(h)
       \/ CheckKeys_97(h)
       \/ CheckKeys_100(h)
       \/ CheckKeys_101(h)
       \/ CheckKeys_102(h)
       \/ CheckKeys_105(h)
       \/ Decrypt_119(h, DecryptInputs)
       \/ Decrypt_127(h)
       \/ Decrypt_130(h)
       \/ Decrypt_132(h)
       \/ Decrypt_136(h)
       \/ Decrypt_139(h)
       \/ Decrypt_144(h)
       \/ New_239(h)
       \/ IssueTicketAndKey_73(h)
       \/ New_245(h)
       \/ New_251(h)
       \/ New_252(h)
       \/ CallIssue(h)
       \/ Issue_263(h)
       \/ IsValid_195(h)
       \/ Repr_218(h)
       \/ Return(h)

SeqSpec == Init /\ [][SeqNext]_vars

\* The server's connection handlers run concurrently against the same
\* srvState: each issues tickets with issueTicketAndKey and redeems them with
\* decrypt and isValid, and their statements interleave.  decrypt is handed
\* issued tickets and garbage.  A call takes far less than a second: the
\* clock advances between calls.
ConcTick ==
  /\ \A g \in Handlers : pc[g] = "idle"
  /\ Tick(ConcMaxTime)

ConcNext ==
  \/ ConcTick
  \/ \E h \in Handlers :
       \/ CheckKeys_88(h)
       \/ CheckKeys_96(h)
       \/ CheckKeys_97(h)
       \/ CheckKeys_100(h)
       \/ CheckKeys_101(h)
       \/ CheckKeys_102(h)
       \/ CheckKeys_105(h)
       \/ Decrypt_119(h, wire \cup {Garbage})
       \/ Decrypt_127(h)
       \/ Decrypt_130(h)
       \/ Decrypt_132(h)
       \/ Decrypt_136(h)
       \/ Decrypt_139(h)
       \/ Decrypt_144(h)
       \/ IssueTicketAndKey_73(h)
       \/ New_245(h)
       \/ New_251(h)
       \/ New_252(h)
       \/ Issue_263(h)
       \/ IsValid_195(h)
       \/ Return(h)

ConcSpec == Init /\ [][ConcNext]_vars

\* One handler issues tickets with issueTicketAndKey and frames them with
\* createTicketMessage, one call at a time.
FrameTick ==
  /\ \A g \in Handlers : pc[g] \in ClockPoints
  /\ Tick(ShortMaxTime)

FrameNext ==
  \/ FrameTick
  \/ \E h \in {"h1"} :
       \/ CheckKeys_88(h)
       \/ CheckKeys_96(h)
       \/ CheckKeys_97(h)
       \/ CheckKeys_100(h)
       \/ CheckKeys_101(h)
       \/ CheckKeys_102(h)
       \/ CheckKeys_105(h)
       \/ IssueTicketAndKey_73(h)
       \/ New_245(h)
       \/ New_251(h)
       \/ New_252(h)
       \/ Issue_263(h)
       \/ CreateTicketMessage_47(h)
       \/ Return(h)

FrameSpec == Init /\ [][FrameNext]_vars

\* One handler issues tickets with issueTicketAndKey and redeems them with
\* decrypt, one call at a time; decrypt is handed issued tickets and tickets
\* that a holder of the server's keys made with a wrong identifier.
ForgeTick ==
  /\ \A g \in Handlers : pc[g] \in ClockPoints
  /\ Tick(ShortMaxTime)

ForgeNext ==
  \/ ForgeTick
  \/ \E h \in {"h1"} :
       \/ CheckKeys_88(h)
       \/ CheckKeys_96(h)
       \/ CheckKeys_97(h)
       \/ CheckKeys_100(h)
       \/ CheckKeys_101(h)
       \/ CheckKeys_102(h)
       \/ CheckKeys_105(h)
       \/ Decrypt_119(h, ForgedInputs)
       \/ Decrypt_127(h)
       \/ Decrypt_130(h)
       \/ Decrypt_132(h)
       \/ Decrypt_136(h)
       \/ Decrypt_139(h)
       \/ Decrypt_144(h)
       \/ IssueTicketAndKey_73(h)
       \/ New_245(h)
       \/ New_251(h)
       \/ New_252(h)
       \/ Issue_263(h)
       \/ Return(h)

ForgeSpec == Init /\ [][ForgeNext]_vars

\* One handler issues and redeems tickets, one call at a time, and the
\* write of rotated keys to durable storage may fail.
FailTick ==
  /\ \A g \in Handlers : pc[g] \in ClockPoints
  /\ Tick(ShortMaxTime)

FailNext ==
  \/ FailTick
  \/ \E h \in {"h1"} :
       \/ CheckKeys_88(h)
       \/ CheckKeys_96(h)
       \/ CheckKeys_97(h)
       \/ CheckKeys_100(h)
       \/ CheckKeys_101(h)
       \/ CheckKeys_102(h)
       \/ CheckKeys_105(h)
       \/ CheckKeys_105_fail(h)
       \/ Decrypt_119(h, wire \cup {Garbage})
       \/ Decrypt_127(h)
       \/ Decrypt_130(h)
       \/ Decrypt_132(h)
       \/ Decrypt_136(h)
       \/ Decrypt_139(h)
       \/ Decrypt_144(h)
       \/ IssueTicketAndKey_73(h)
       \/ New_245(h)
       \/ New_251(h)
       \/ New_252(h)
       \/ Issue_263(h)
       \/ Return(h)

FailSpec == Init /\ [][FailNext]_vars

-----------------------------------------------------------------------------
(* Properties.                                                             *)

\* Handler h has finished a call of op and holds its outcome.
Finished(h, op) == pc[h] = "ret" /\ loc[h].op = op

\* The HMAC field of the 112-byte ticket t is the HMAC of its first 80
\* bytes under key.
Authentic(t, key) ==
  key # None /\ FieldHMAC(t) = hmac_sha256_digest(key, FieldIV(t) \o FieldCT(t))

\* decrypt was handed the ticket that object i, constructed at time t,
\* issued at time t, and ran at time t from call to return; t is now.
RoundTripAt(h, i, t) ==
  /\ Finished(h, "decrypt")
  /\ ~loc[h].ticked /\ now = t
  /\ objs[i].fresh
  /\ loc[h].ticket = FinalTicket(Stamped(objs[i], t))

\* C1: decrypting, at time t, the ticket that SessionTicket(k, srvState)
\* .issue() produced at time t returns a ProtocolState (not None) whose
\* masterKey is k and whose issueDate is t.
C1_RoundTrip ==
  \A h \in Handlers : \A i \in 1..Len(objs) :
    RoundTripAt(h, i, now) =>
      /\ res[h].kind = "ProtocolState"
      /\ res[h].masterKey = objs[i].state.masterKey
      /\ res[h].issueDate = now

C1_Witness ==
  \E h \in Handlers : \E i \in 1..Len(objs) :
    /\ RoundTripAt(h, i, now)
    /\ now > StartTime
    /\ res[h].kind = "ProtocolState"

\* decrypt was handed, unchanged, a ticket that object i issued.
RedeemedFrom(h, i) ==
  /\ Finished(h, "decrypt")
  /\ loc[h].ticket \in wire
  /\ FieldIV(loc[h].ticket) = objs[i].IV

\* C2: a ticket issued under key generation N is accepted by decrypt when
\* the key material is at generation N+1 and rejected (None) when it is at
\* generation N+2 or later.
C2_GraceWindow ==
  \A h \in Handlers : \A i \in 1..Len(objs) :
    RedeemedFrom(h, i) =>
      /\ gen = objs[i].gen + 1 => res[h].kind = "ProtocolState"
      /\ gen >= objs[i].gen + 2 => res[h].kind = "None"

C2_Witness ==
  \E h \in Handlers : \E i \in 1..Len(objs) :
    /\ RedeemedFrom(h, i)
    /\ gen = objs[i].gen + 2
    /\ res[h].kind = "None"

\* C3: decrypt reaches the AES decryption only with a ticket whose HMAC has
\* verified under the current or the previous HMAC key; when neither
\* verifies it returns None and no AES decryption has taken place.
C3_AuthenticateThenDecrypt ==
  \A h \in Handlers :
    /\ (pc[h] = "d144" \/ loc[h].aesUsed) =>
         /\ loc[h].vkey \in {srvState.hmacKey, srvState.oldHmacKey}
         /\ Authentic(loc[h].ticket, loc[h].vkey)
    /\ ( /\ Finished(h, "decrypt")
         /\ ByteLen(loc[h].ticket) = TICKET_LENGTH
         /\ ~Authentic(loc[h].ticket, srvState.hmacKey)
         /\ ~Authentic(loc[h].ticket, srvState.oldHmacKey) ) =>
         /\ res[h].kind = "None"
         /\ ~loc[h].aesUsed

C3_Witness ==
  \E h \in Handlers :
    /\ Finished(h, "decrypt")
    /\ ByteLen(loc[h].ticket) = TICKET_LENGTH
    /\ srvState.oldHmacKey # None
    /\ ~Authentic(loc[h].ticket, srvState.hmacKey)
    /\ ~Authentic(loc[h].ticket, srvState.oldHmacKey)
    /\ res[h].kind = "None" /\ ~loc[h].aesUsed

\* C4: a 112-byte string that differs from an issued ticket in its IV, its
\* ciphertext or its HMAC field, and is not itself an issued ticket, is
\* never accepted: decrypt returns None.
C4_TamperRejection ==
  \A h \in Handlers :
    ( /\ Finished(h, "decrypt")
      /\ ByteLen(loc[h].ticket) = TICKET_LENGTH
      /\ loc[h].ticket \notin wire ) => res[h].kind = "None"

C4_Witness ==
  \E h \in Handlers : \E t \in wire :
    /\ Finished(h, "decrypt")
    /\ loc[h].ticket \in Tampered(t) \ wire
    /\ FieldHMAC(loc[h].ticket) # FieldHMAC(t)
    /\ Authentic(t, srvState.hmacKey)
    /\ res[h].kind = "None"

\* A rotation by g has archived a current key and has not yet replaced both
\* current keys.
RotationInProgress(g) == pc[g] \in {"ck97", "ck100", "ck101"}

\* The step is h reading key material: lines 127-139 of decrypt, lines
\* 251-252 of SessionTicket.__init__.
ReadsKeys(h) ==
  /\ pc[h] \in {"d127", "d130", "d132", "d136", "d139", "s251", "s252"}
  /\ pc'[h] # pc[h]

\* C5: with handlers running concurrently against the same srvState, no
\* handler reads key material while another handler's rotation is half
\* done.
C5_AtomicRotation ==
  [][\A h \in Handlers :
       ReadsKeys(h) => \A g \in Handlers \ {h} : ~RotationInProgress(g)]_vars

\* C6: an input to decrypt that is not 112 bytes long ends the call with a
\* format-error rejection returned to the caller, before any rotation and
\* without an AES decryption.
C6_FormatRejection ==
  \A h \in Handlers :
    (Finished(h, "decrypt") /\ ByteLen(loc[h].ticket) # TICKET_LENGTH) =>
      /\ res[h].kind = "FormatError"
      /\ loc[h].pre = << >>
      /\ ~loc[h].aesUsed

\* C7: a call of checkKeys with now - keyCreation <= KEY_ROTATION_TIME
\* returns leaving the key material unchanged and without writeState; a
\* rotation takes place only when more than KEY_ROTATION_TIME has passed
\* since the one before.
C7_NoRotationWithinInterval ==
  [][ /\ \A h \in Handlers :
           ( /\ pc[h] = "ck88" /\ pc'[h] # "ck88"
             /\ now - srvState.keyCreation <= KEY_ROTATION_TIME ) =>
               /\ pc'[h] = loc[h].ckret
               /\ srvState' = srvState
               /\ writes' = writes
      /\ (srvState' # srvState \/ writes' # writes) =>
           \E h \in Handlers : pc[h] \in {"ck96", "ck97", "ck100", "ck101", "ck102", "ck105"}
      /\ gen' # gen => now - srvState.keyCreation > KEY_ROTATION_TIME ]_vars

C7_Witness ==
  \E h \in Handlers :
    /\ Finished(h, "checkKeys")
    /\ loc[h].pre = << >>
    /\ gen >= 1
    /\ now - srvState.keyCreation = KEY_ROTATION_TIME
    /\ writes = gen

\* C8: aesKey and hmacKey are never unset; a rotation ends with the keys
\* that were current before it in oldAesKey and oldHmacKey, with both
\* current keys replaced by fresh values, with keyCreation set to the time
\* of the rotation, and with writeState called once.
C8_ArchiveBeforeReplace ==
  [][ /\ srvState'.aesKey # None /\ srvState'.hmacKey # None
      /\ \A h \in Handlers :
           (pc[h] = "ck102" /\ pc'[h] # "ck102") => srvState'.keyCreation = now
      /\ \A h \in Handlers :
           (pc[h] = "ck105" /\ pc'[h] # "ck105") =>
             LET pre == loc[h].pre[1]
             IN  /\ srvState'.oldAesKey = pre.aesKey
                 /\ srvState'.oldHmacKey = pre.hmacKey
                 /\ srvState'.aesKey \notin {pre.aesKey, pre.oldAesKey}
                 /\ srvState'.hmacKey \notin {pre.hmacKey, pre.oldHmacKey}
                 /\ srvState'.keyCreation <= now
                 /\ srvState'.keyCreation - pre.keyCreation > KEY_ROTATION_TIME
                 /\ writes' = writes + 1
                 /\ writes' = gen' ]_vars

C8_Witness ==
  \E h \in Handlers :
    /\ Finished(h, "checkKeys")
    /\ loc[h].pre # << >>
    /\ loc[h].pre[1].oldAesKey # None
    /\ srvState.oldAesKey = loc[h].pre[1].aesKey
    /\ srvState.oldHmacKey = loc[h].pre[1].hmacKey
    /\ writes = gen

\* C9: isValid() returns False exactly when now - issueDate exceeds
\* SESSION_TICKET_LIFETIME and True otherwise, whatever the other fields.
C9_ExpiryBoundary ==
  \A h \in Handlers :
    Finished(h, "isValid") =>
      /\ res[h].kind = "isValid"
      /\ res[h].value = ~(res[h].at - res[h].state.issueDate > SESSION_TICKET_LIFETIME)
      /\ res[h].state.issueDate = res[h].at - SESSION_TICKET_LIFETIME - 1 => ~res[h].value
      /\ res[h].state.issueDate = res[h].at - SESSION_TICKET_LIFETIME + 1 => res[h].value
      /\ res[h].state.issueDate = res[h].at - SESSION_TICKET_LIFETIME => res[h].value

C9_Witness ==
  \E h \in Handlers :
    /\ Finished(h, "isValid")
    /\ res[h].kind = "isValid"
    /\ res[h].state.issueDate = res[h].at - SESSION_TICKET_LIFETIME - 1
    /\ ~res[h].value

\* The chunk lengths of a byte string.
Layout(b) == [i \in 1..Len(b) |-> b[i].len]

\* C10: every ticket issue() returns is 112 bytes: a 16-byte IV, 64 bytes
\* of ciphertext of the serialised state (4-byte issue date, 18-byte
\* identifier, 32-byte master key, 10 zero bytes), and a 32-byte HMAC over
\* the first 80 bytes.
C10_FixedLayout ==
  /\ \A t \in wire :
       /\ ByteLen(t) = 112
       /\ Layout(t) = <<16, 64, 32>>
       /\ t[2].kind = "enc" /\ t[2].iv = <<t[1]>>
       /\ Layout(t[2].pt) = <<4, 18, 32, 10>>
       /\ t[2].pt[1].kind = "u32"
       /\ <<t[2].pt[2]>> = TICKET_IDENTIFIER
       /\ t[2].pt[4].kind = "zero"
       /\ t[3].kind = "mac" /\ t[3].data = <<t[1], t[2]>>
       /\ ByteLen(t[3].data) = 80
  /\ \A h \in Handlers :
       (Finished(h, "issue") /\ res[h].kind = "ticket") =>
          res[h].bytes \in wire

C10_Witness ==
  \E h \in Handlers :
    /\ Finished(h, "issue")
    /\ res[h].kind = "ticket"
    /\ res[h].bytes \in wire
    /\ Layout(res[h].bytes) = <<16, 64, 32>>

\* What decrypt returns when the HMAC verifies under neither key (lines 133
\* and 141).
AuthenticationFailure == [kind |-> "None"]

\* The identifier field of the plaintext of the ticket h holds, decrypted
\* with the AES key h selected.
IdentifierOf(h) ==
  Slice(AesDecrypt(loc[h].aesKey, FieldIV(loc[h].ticket), FieldCT(loc[h].ticket)),
        4, 22)

\* C12: a 112-byte ticket whose HMAC verifies under the current or the
\* previous HMAC key and whose plaintext bytes 4..22 are not the identifier
\* constant yields no ProtocolState, and what decrypt returns for it differs
\* from what it returns for an authentication failure.
C12_WrongIdentifierRejection ==
  \A h \in Handlers :
    ( /\ Finished(h, "decrypt")
      /\ ByteLen(loc[h].ticket) = TICKET_LENGTH
      /\ \/ Authentic(loc[h].ticket, srvState.hmacKey)
         \/ Authentic(loc[h].ticket, srvState.oldHmacKey)
      /\ IdentifierOf(h) # TICKET_IDENTIFIER ) =>
        /\ res[h].kind # "ProtocolState"
        /\ res[h] # AuthenticationFailure

\* The key material s is that of a rotation of the key material p completed.
FullyRotated(p, s) ==
  /\ s.oldAesKey = p.aesKey /\ s.oldHmacKey = p.hmacKey
  /\ s.aesKey \notin {None, p.aesKey} /\ s.hmacKey \notin {None, p.hmacKey}
  /\ s.keyCreation > p.keyCreation

\* C13: when writeState fails during a rotation inside issuance or
\* verification, the operation still ends normally (a ticket is issued, or
\* the ticket is verified or rejected) and the key material in memory is
\* fully rotated or fully rolled back.
C13_PersistenceFailureSurvivable ==
  \A h \in Handlers :
    (pc[h] = "ret" /\ loc[h].wfail) =>
      /\ loc[h].op = "decrypt" => res[h].kind \in {"ProtocolState", "None"}
      /\ loc[h].op = "issueTicketAndKey" => res[h].kind = "ticket"
      /\ \/ FullyRotated(loc[h].pre[1], srvState)
         \/ srvState = loc[h].pre[1]

\* C14: no two issued tickets that are encrypted under the same AES key
\* carry the same IV, also when both come from issue() calls on the same
\* SessionTicket object.
C14_IVFreshness ==
  \A t \in wire : \A u \in wire :
    (t # u /\ t[2].key = u[2].key) => FieldIV(t) # FieldIV(u)

\* The ticket that the call of issue() or issueTicketAndKey which handler h
\* has finished returned.
IssuedBy(h) == FinalTicket(objs[loc[h].obj])

\* C15: every ticket issue() returns is encrypted and authenticated with
\* the AES and HMAC keys that are srvState's current keys when issue() is
\* called, whatever took place between the construction of the
\* SessionTicket and the call.
C15_IssueUsesCurrentKeys ==
  \A h \in Handlers :
    ( /\ Finished(h, "issue") \/ Finished(h, "issueTicketAndKey")
      /\ res[h].kind = "ticket" ) =>
        /\ IssuedBy(h)[2].key = srvState.aesKey
        /\ IssuedBy(h)[3].key = srvState.hmacKey

\* The issue date in the first four bytes of the serialised state b.
DateIn(b) == unpack_I(Slice(b, 0, 4))

\* The step is handler h returning from issue() with a ticket.
IssueReturns(h) ==
  pc[h] = "i263" /\ pc'[h] = "ret" /\ res'[h].kind = "ticket"

\* The step is handler h serialising a ProtocolState with repr().
ReprReturns(h) ==
  pc[h] = "ret" /\ res[h].kind # "repr" /\ res'[h].kind = "repr"

\* C17 as amended: issue() sets the issue date of its ProtocolState to the
\* time of the call before it serialises the state, so every issued ticket
\* carries the time at which it was issued, never the construction or
\* module-load time; serialising a ProtocolState writes the issue date
\* stored in the object, in 64 bytes.
C17_StampedAtIssue ==
  [][\A h \in Handlers :
       /\ IssueReturns(h) =>
            /\ IssuedBy(h)' \in wire'
            /\ DateIn(IssuedBy(h)'[2].pt) = now
            /\ objs'[loc[h].obj].state.issueDate = now
       /\ ReprReturns(h) =>
            /\ DateIn(res'[h].bytes) = res'[h].state.issueDate
            /\ res'[h].state \in {res[h]} \cup {objs[i].state : i \in 1..Len(objs)}
            /\ ByteLen(res'[h].bytes) = 64]_vars

C17_Witness ==
  \E h \in Handlers :
    /\ Finished(h, "issue")
    /\ res[h].kind = "ticket"
    /\ ~objs[loc[h].obj].fresh
    /\ DateIn(IssuedBy(h)[2].pt) = now
    /\ now > DefaultIssueDate

\* C17 as stated: serialising a ProtocolState writes the time of the
\* serialisation as the issue date, and the issue date of every issued
\* ticket is the time at which it was serialised.
C17_Original ==
  [][\A h \in Handlers :
       /\ IssueReturns(h) => DateIn(IssuedBy(h)'[2].pt) = now
       /\ ReprReturns(h) => DateIn(res'[h].bytes) = now]_vars

\* C18: with handlers calling checkKeys concurrently, one rotation takes
\* effect for each rotation interval that has elapsed, and a decrypt whose
\* rotation check found the interval elapsed accepts a ticket issued under
\* the keys that were current until then.
C18_SingleRotationUnderRace ==
  /\ gen * (KEY_ROTATION_TIME + 1) <= now - StartTime
  /\ \A h \in Handlers :
       ( /\ Finished(h, "decrypt")
         /\ loc[h].pre # << >>
         /\ loc[h].ticket \in wire
         /\ Authentic(loc[h].ticket, loc[h].pre[1].hmacKey) ) =>
           res[h].kind = "ProtocolState"

\* decrypt was handed, unchanged, the ticket that issueTicketAndKey produced
\* with object i, and has returned no later than SESSION_TICKET_LIFETIME
\* after the ticket's issue date.
RedeemedInTime(h, i) ==
  /\ Finished(h, "decrypt")
  /\ objs[i].chain
  /\ loc[h].ticket = FinalTicket(objs[i])
  /\ loc[h].ticket \in wire
  /\ now - objs[i].state.issueDate <= SESSION_TICKET_LIFETIME

\* C19: with SESSION_TICKET_LIFETIME <= KEY_ROTATION_TIME and one call at a
\* time, a ticket that issueTicketAndKey produced at time t is accepted by
\* decrypt at every time u with u - t <= SESSION_TICKET_LIFETIME, whatever
\* rotations took place in between, and the state returned is valid.
C19_UnexpiredSurvivesRotation ==
  /\ SESSION_TICKET_LIFETIME <= KEY_ROTATION_TIME
  /\ \A h \in Handlers : \A i \in 1..Len(objs) :
       RedeemedInTime(h, i) =>
         /\ res[h].kind = "ProtocolState"
         /\ res[h].masterKey = objs[i].state.masterKey
         /\ res[h].issueDate = objs[i].state.issueDate
         /\ isValid(res[h], now)

C19_Witness ==
  \E h \in Handlers : \E i \in 1..Len(objs) :
    /\ RedeemedInTime(h, i)
    /\ now - objs[i].state.issueDate = SESSION_TICKET_LIFETIME
    /\ gen = objs[i].gen + 1
    /\ loc[h].pre # << >>
    /\ res[h].kind = "ProtocolState"

\* C20: when decrypt reaches the AES decryption, the AES key it uses is of
\* the same key generation as the HMAC key that verified the ticket: the
\* current AES key after the current HMAC key, the previous AES key after
\* the previous HMAC key, and the previous pair only when the current HMAC
\* key has not verified the ticket.
C20_KeyPairing ==
  \A h \in Handlers :
    (pc[h] = "d144" \/ loc[h].aesUsed) =>
      /\ loc[h].aesKey[1].id = loc[h].vkey[1].id
      /\ \/ /\ loc[h].vkey = srvState.hmacKey
            /\ loc[h].aesKey = srvState.aesKey
         \/ /\ loc[h].vkey = srvState.oldHmacKey
            /\ loc[h].aesKey = srvState.oldAesKey
            /\ ~Authentic(loc[h].ticket, srvState.hmacKey)

C20_Witness ==
  \E h \in Handlers :
    /\ Finished(h, "decrypt")
    /\ loc[h].aesUsed
    /\ loc[h].vkey = srvState.oldHmacKey
    /\ loc[h].aesKey = srvState.oldAesKey
    /\ res[h].kind = "ProtocolState"

\* createTicketMessage has returned the message m to handler h.
Framed(h) == Finished(h, "createTicketMessage") /\ res[h].kind = "message"

\* The number of padding bytes of the ticket message m.
PaddingOf(m) ==
  ByteLen(m) - TICKET_LENGTH - HMAC_SHA256_128_LENGTH - HMAC_SHA256_128_LENGTH

C16_PaddingRange ==
  \A h \in Handlers :
    Framed(h) =>
      LET m == res[h].bytes
          L == PaddingOf(m)
      IN  /\ 0 <= L /\ L <= MAX_PADDING_LENGTH - 112
          /\ L > 0 => LET padding == Slice(m, TICKET_LENGTH, TICKET_LENGTH + L)
                      IN  Len(padding) = 1 /\ padding[1].kind = "rand"

C16_Witness ==
  \E h \in Handlers :
    /\ Framed(h)
    /\ PaddingOf(res[h].bytes) = MAX_PADDING_LENGTH - 112
    /\ Layout(res[h].bytes) = <<16, 64, 32, MAX_PADDING_LENGTH - 112, 16, 16>>

\* C16 as stated: 0 <= L < MAX_PADDING_LENGTH - 112, the upper bound
\* excluded.
C16_Original ==
  \A h \in Handlers :
    Framed(h) =>
      LET L == PaddingOf(res[h].bytes)
      IN  0 <= L /\ L < MAX_PADDING_LENGTH - 112

====
